---- MODULE Spec2Model ----
(***************************************************************************)
(* Lifecycle of the single QML application of the qui crate                *)
(* (src/src/app.rs): App::new, impl Drop for App, AppRef::get / clone /    *)
(* drop, the name and style accessors and the log callback, as run by      *)
(* several threads over the one static APP_EXTRA: RwLock<Weak<AppExtra>>,  *)
(* and the QuickViews borrowed from the App (src/src/quick_view.rs).       *)
(***************************************************************************)
EXTENDS Naturals, FiniteSets, Sequences, TLC

\* ------------------------------------------------------------------ bounds
NumThreads == 2        \* threads of the process
MaxApps == 2           \* AppExtra allocations (Arc::new) over the whole run
MaxStrong == 3         \* cap of the strong count of one allocation
MaxViews == 2          \* calls of QuickView::new over the whole run

Threads == 1..NumThreads
Ids == 1..MaxApps
ViewIds == 1..MaxViews

\* the thread whose AppRef::get results are recorded in obs
Observer == NumThreads

\* the strings handed to set_name, as UTF-8 bytes: "", "hi", "é"
Names == {<<>>, <<104, 105>>, <<195, 169>>}

\* the style handed to set_style: "M"
Styles == {<<77>>}

\* the url handed to set_source, url.as_str() as UTF-8 bytes: "f:q"
Urls == {<<102, 58, 113>>}

VARIABLES
    pc,             \* position of each thread inside the operation it runs
    cur,            \* per thread: the allocation `extra` / `self.r.0` in use
    lock_writer,    \* APP_EXTRA: the thread holding the write guard, 0 if none
    lock_readers,   \* APP_EXTRA: number of read guards alive
    lock_poisoned,  \* APP_EXTRA: poison flag of the RwLock
    weak,           \* APP_EXTRA: the Weak<AppExtra>, 0 is Weak::new()
    created,        \* number of Arc<AppExtra> allocated so far
    strong,         \* Arc strong count of each allocation
    status,         \* each App: none, creating, live, dropping, destroyed,
                    \* leaked (drop panicked on the count), abandoned (drop
                    \* panicked on the poisoned lock)
    owner,          \* the thread that called App::new (App is not Send)
    refs,           \* AppRef values held by each thread, per allocation
    native,         \* native applications created by qlueAppNew, not deleted
    nativeName,     \* the application name kept by the native toolkit
    nativeStyle,    \* the QuickControls2 style kept by the native toolkit
    views,          \* QuickView values in existence: the handle im, and the
                    \* App whose borrow the lifetime 'a stands for
    nativeViews,    \* per handle returned by qlueQuickViewNew: the native view
    obs,            \* what the Observer has seen of AppRef::get so far
    last            \* the last operation that returned: thread, op, result, value

vars == <<pc, cur, lock_writer, lock_readers, lock_poisoned, weak, created,
          strong, status, owner, refs, native, nativeName, nativeStyle,
          views, nativeViews, obs, last>>

lockVars == <<lock_writer, lock_readers, lock_poisoned, weak>>
toolkitVars == <<nativeName, nativeStyle>>
viewVars == <<views, nativeViews>>

\* a handle qlueQuickViewNew has not returned yet
NoView == [state |-> "none", source |-> <<>>, shown |-> FALSE, deletes |-> 0]

Ret(t, op, res, val) == [t |-> t, op |-> op, res |-> res, val |-> val]

\* --------------------------------------------------------- Arc / Weak / lock
\* Arc::strong_count(&self.r.0)
strong_count(id) == strong[id]

\* Weak::upgrade: Some exactly when the allocation still has a strong owner
upgrade(w) == IF w # 0 /\ strong[w] > 0 THEN w ELSE 0

\* a lock whose write() does not wait for the readers to leave
write_ready_unshared == lock_writer = 0

\* RwLock::write() can return: no guard of either kind is alive
write_ready == lock_writer = 0 /\ lock_readers = 0

\* a writer is blocked in RwLock::write()
writer_waiting == \E u \in Threads : pc[u] \in {"new_wait", "drop_wait"}

\* try_read that takes a poisoned lock for a free one
try_read_unpoisoned ==
    IF lock_writer # 0 THEN {FALSE}
    ELSE IF writer_waiting THEN {TRUE, FALSE}
    ELSE {TRUE}

\* RwLock::read() in place of try_read(): no outcome while a writer holds the
\* lock, the caller waits
try_read_blocking ==
    IF lock_writer # 0 THEN {}
    ELSE IF lock_poisoned THEN {FALSE}
    ELSE {TRUE}

\* RwLock::try_write() in place of try_read(): refused by any guard alive
try_read_exclusive ==
    IF lock_writer # 0 \/ lock_readers # 0 \/ lock_poisoned THEN {FALSE}
    ELSE IF writer_waiting THEN {TRUE, FALSE}
    ELSE {TRUE}

\* RwLock::try_read(): the outcomes "granted" can take.  It fails while a
\* write guard is alive (also one of the calling thread) and on a poisoned
\* lock; with a writer blocked it may fail or succeed (writer preference of
\* the platform lock).
try_read ==
    IF lock_writer # 0 \/ lock_poisoned THEN {FALSE}
    ELSE IF writer_waiting THEN {TRUE, FALSE}
    ELSE {TRUE}

\* the sequence of get results seen by one thread, folded into a phase:
\* start (only None so far), some, none (None after a Some), broken (a Some
\* after that None)
observe(o, r) ==
    CASE o = "start" -> IF r = "Some" THEN "some" ELSE "start"
      [] o = "some" -> IF r = "Some" THEN "some" ELSE "none"
      [] o = "none" -> IF r = "Some" THEN "broken" ELSE "none"
      [] OTHER -> "broken"

\* ------------------------------------------------------------------- Init
Init ==
    /\ pc = [t \in Threads |-> "idle"]
    /\ cur = [t \in Threads |-> 0]
    /\ lock_writer = 0
    /\ lock_readers = 0
    /\ lock_poisoned = FALSE
    /\ weak = 0
    /\ created = 0
    /\ strong = [i \in Ids |-> 0]
    /\ status = [i \in Ids |-> "none"]
    /\ owner = [i \in Ids |-> 0]
    /\ refs = [t \in Threads |-> [i \in Ids |-> 0]]
    /\ native = {}
    /\ nativeName = <<>>
    /\ nativeStyle = <<>>
    /\ views = {}
    /\ nativeViews = [h \in ViewIds |-> NoView]
    /\ obs = "start"
    /\ last = Ret(0, "start", "ok", 0)

\* ---------------------------------------------------------------- App::new
\* the call, up to RwLock::write() (line 40)
NewCall(t) ==
    /\ pc[t] = "idle"
    /\ created + Cardinality({u \in Threads : pc[u] \in {"new_wait", "new_check"}}) < MaxApps
    /\ pc' = [pc EXCEPT ![t] = "new_wait"]
    /\ UNCHANGED <<cur, lockVars, created, strong, status, owner, refs, native,
                   toolkitVars, obs, last>>
    /\ UNCHANGED viewVars

\* App::new taking a poisoned lock like a free one (write() without unwrap)
NewLock_recovering(t) ==
    /\ pc[t] = "new_wait"
    /\ write_ready
    /\ pc' = [pc EXCEPT ![t] = "new_check"]
    /\ lock_writer' = t
    /\ UNCHANGED last
    /\ UNCHANGED <<cur, lock_readers, lock_poisoned, weak, created, strong,
                   status, owner, refs, native, toolkitVars, obs>>
    /\ UNCHANGED viewVars

\* APP_EXTRA.write().unwrap(): blocks until the lock is free; panics on poison
NewLock(t) ==
    /\ pc[t] = "new_wait"
    /\ write_ready
    /\ IF lock_poisoned
       THEN /\ pc' = [pc EXCEPT ![t] = "idle"]
            /\ last' = Ret(t, "new", "panic", 0)
            /\ UNCHANGED lock_writer
       ELSE /\ pc' = [pc EXCEPT ![t] = "new_check"]
            /\ lock_writer' = t
            /\ UNCHANGED last
    /\ UNCHANGED <<cur, lock_readers, lock_poisoned, weak, created, strong,
                   status, owner, refs, native, toolkitVars, obs>>
    /\ UNCHANGED viewVars

\* App::new without the assertion of line 41
has_instance_unchecked == FALSE

\* line 41: wextra.upgrade().is_none() is false
has_instance == upgrade(weak) # 0

\* assert!(wextra.upgrade().is_none()) and Arc::new(AppExtra::new())
NewCheck(t) ==
    /\ pc[t] = "new_check"
    /\ IF has_instance
       THEN \* the assertion panics; the write guard is dropped while panicking
            /\ pc' = [pc EXCEPT ![t] = "idle"]
            /\ lock_writer' = 0
            /\ lock_poisoned' = TRUE
            /\ last' = Ret(t, "new", "panic", 0)
            /\ UNCHANGED <<cur, created, strong, status, owner>>
       ELSE /\ pc' = [pc EXCEPT ![t] = "new_native"]
            /\ created' = created + 1
            /\ cur' = [cur EXCEPT ![t] = created + 1]
            /\ strong' = [strong EXCEPT ![created + 1] = 1]
            /\ status' = [status EXCEPT ![created + 1] = "creating"]
            /\ owner' = [owner EXCEPT ![created + 1] = t]
            /\ UNCHANGED <<lock_writer, lock_poisoned, last>>
    /\ UNCHANGED <<lock_readers, weak, refs, native, toolkitVars, obs>>
    /\ UNCHANGED viewVars

\* qlue::qlueAppNew(&mut extra.argc, extra.argv.as_mut_ptr(), Some(log))
NewNative(t) ==
    /\ pc[t] = "new_native"
    /\ native' = native \cup {cur[t]}
    /\ pc' = [pc EXCEPT ![t] = "new_publish"]
    /\ UNCHANGED <<cur, lockVars, created, strong, status, owner, refs,
                   toolkitVars, obs, last>>
    /\ UNCHANGED viewVars

\* App::new without line 51: the weak pointer is never published
NewPublish_unpublished(t) ==
    /\ pc[t] = "new_publish"
    /\ status' = [status EXCEPT ![cur[t]] = "live"]
    /\ lock_writer' = 0
    /\ pc' = [pc EXCEPT ![t] = "idle"]
    /\ last' = Ret(t, "new", "ok", cur[t])
    /\ cur' = [cur EXCEPT ![t] = 0]
    /\ UNCHANGED <<lock_readers, lock_poisoned, weak, created, strong, owner,
                   refs, native, toolkitVars, obs>>
    /\ UNCHANGED viewVars

\* *wextra = Arc::downgrade(&extra); the App is returned, the guard dropped
NewPublish(t) ==
    /\ pc[t] = "new_publish"
    /\ weak' = cur[t]
    /\ status' = [status EXCEPT ![cur[t]] = "live"]
    /\ lock_writer' = 0
    /\ pc' = [pc EXCEPT ![t] = "idle"]
    /\ last' = Ret(t, "new", "ok", cur[t])
    /\ cur' = [cur EXCEPT ![t] = 0]
    /\ UNCHANGED <<lock_readers, lock_poisoned, created, strong, owner, refs,
                   native, toolkitVars, obs>>
    /\ UNCHANGED viewVars

\* ------------------------------------------------------- impl Drop for App
\* an App that could be dropped while a QuickView made from it exists
\* (QuickView without the lifetime 'a of its PhantomData<&'a App>)
DropCall_unborrowed(t, id) ==
    /\ pc[t] = "idle"
    /\ status[id] = "live"
    /\ owner[id] = t
    /\ pc' = [pc EXCEPT ![t] = "drop_wait"]
    /\ cur' = [cur EXCEPT ![t] = id]
    /\ status' = [status EXCEPT ![id] = "dropping"]
    /\ UNCHANGED <<lockVars, created, strong, owner, refs, native, toolkitVars,
                   obs, last>>
    /\ UNCHANGED viewVars

\* the App goes out of scope in the thread that created it; the borrow
\* checker rejects that while a QuickView<'a> borrowed from it is alive
DropCall(t, id) ==
    /\ pc[t] = "idle"
    /\ status[id] = "live"
    /\ owner[id] = t
    /\ \A v \in views : v.app # id
    /\ pc' = [pc EXCEPT ![t] = "drop_wait"]
    /\ cur' = [cur EXCEPT ![t] = id]
    /\ status' = [status EXCEPT ![id] = "dropping"]
    /\ UNCHANGED <<lockVars, created, strong, owner, refs, native, toolkitVars,
                   obs, last>>
    /\ UNCHANGED viewVars

\* APP_EXTRA.write().unwrap(); on a poisoned lock drop panics and the field
\* self.r is dropped by the unwinding
DropLock(t) ==
    /\ pc[t] = "drop_wait"
    /\ write_ready
    /\ IF lock_poisoned
       THEN /\ pc' = [pc EXCEPT ![t] = "idle"]
            /\ strong' = [strong EXCEPT ![cur[t]] = @ - 1]
            /\ status' = [status EXCEPT ![cur[t]] = "abandoned"]
            /\ last' = Ret(t, "drop", "panic", cur[t])
            /\ cur' = [cur EXCEPT ![t] = 0]
            /\ UNCHANGED lock_writer
       ELSE /\ pc' = [pc EXCEPT ![t] = "drop_check"]
            /\ lock_writer' = t
            /\ UNCHANGED <<strong, status, last, cur>>
    /\ UNCHANGED <<lock_readers, lock_poisoned, weak, created, owner, refs,
                   native, toolkitVars, obs>>
    /\ UNCHANGED viewVars

\* the count check of line 70 off by one
StillReferenced_late(rc) == rc > 2

\* the count check of line 70 counting the App's own reference
StillReferenced_early(rc) == rc > 0

\* impl Drop for App without the count check of line 70
StillReferenced_never(rc) == FALSE

\* line 70: references besides the App's own are outstanding
StillReferenced(rc) == rc > 1

\* impl Drop for App without line 78: the slot keeps its weak pointer
DropCheck_uncleared(t) ==
    /\ pc[t] = "drop_check"
    /\ IF StillReferenced(strong_count(cur[t]))
       THEN /\ pc' = [pc EXCEPT ![t] = "idle"]
            /\ lock_writer' = 0
            /\ lock_poisoned' = TRUE
            /\ strong' = [strong EXCEPT ![cur[t]] = (@ + 1) - 1]
            /\ status' = [status EXCEPT ![cur[t]] = "leaked"]
            /\ last' = Ret(t, "drop", "panic", cur[t])
            /\ cur' = [cur EXCEPT ![t] = 0]
            /\ UNCHANGED weak
       ELSE /\ pc' = [pc EXCEPT ![t] = "drop_native"]
            /\ UNCHANGED weak
            /\ UNCHANGED <<lock_writer, lock_poisoned, strong, status, last, cur>>
    /\ UNCHANGED <<lock_readers, created, owner, refs, native, toolkitVars, obs>>
    /\ UNCHANGED viewVars

\* impl Drop for App without the mem::forget of line 71: the panic drops the
\* App's reference and nothing stays behind
DropCheck_unleaked(t) ==
    /\ pc[t] = "drop_check"
    /\ IF StillReferenced(strong_count(cur[t]))
       THEN /\ pc' = [pc EXCEPT ![t] = "idle"]
            /\ lock_writer' = 0
            /\ lock_poisoned' = TRUE
            /\ strong' = [strong EXCEPT ![cur[t]] = @ - 1]
            /\ status' = [status EXCEPT ![cur[t]] = "leaked"]
            /\ last' = Ret(t, "drop", "panic", cur[t])
            /\ cur' = [cur EXCEPT ![t] = 0]
            /\ UNCHANGED weak
       ELSE /\ pc' = [pc EXCEPT ![t] = "drop_native"]
            /\ weak' = 0
            /\ UNCHANGED <<lock_writer, lock_poisoned, strong, status, last, cur>>
    /\ UNCHANGED <<lock_readers, created, owner, refs, native, toolkitVars, obs>>
    /\ UNCHANGED viewVars

\* lines 69-78: the count check, the leak and the panic, or clearing the slot
DropCheck(t) ==
    /\ pc[t] = "drop_check"
    /\ IF StillReferenced(strong_count(cur[t]))
       THEN \* mem::forget(self.r.clone()) adds one count for ever, the panic
            \* drops the guard (poison) and then the field self.r
            /\ pc' = [pc EXCEPT ![t] = "idle"]
            /\ lock_writer' = 0
            /\ lock_poisoned' = TRUE
            /\ strong' = [strong EXCEPT ![cur[t]] = (@ + 1) - 1]
            /\ status' = [status EXCEPT ![cur[t]] = "leaked"]
            /\ last' = Ret(t, "drop", "panic", cur[t])
            /\ cur' = [cur EXCEPT ![t] = 0]
            /\ UNCHANGED weak
       ELSE /\ pc' = [pc EXCEPT ![t] = "drop_native"]
            /\ weak' = 0
            /\ UNCHANGED <<lock_writer, lock_poisoned, strong, status, last, cur>>
    /\ UNCHANGED <<lock_readers, created, owner, refs, native, toolkitVars, obs>>
    /\ UNCHANGED viewVars

\* qlue::qlueAppDelete(), then the guard and the field self.r are dropped
DropNative(t) ==
    /\ pc[t] = "drop_native"
    /\ native' = native \ {cur[t]}
    /\ lock_writer' = 0
    /\ strong' = [strong EXCEPT ![cur[t]] = @ - 1]
    /\ status' = [status EXCEPT ![cur[t]] = "destroyed"]
    /\ pc' = [pc EXCEPT ![t] = "idle"]
    /\ last' = Ret(t, "drop", "ok", cur[t])
    /\ cur' = [cur EXCEPT ![t] = 0]
    /\ UNCHANGED <<lock_readers, lock_poisoned, weak, created, owner, refs,
                   toolkitVars, obs>>
    /\ UNCHANGED viewVars

\* ------------------------------------------------------------------ AppRef
\* App::new_ref: self.r.clone(), in the thread that owns the App
NewRef(t, id) ==
    /\ pc[t] = "idle"
    /\ status[id] = "live"
    /\ owner[id] = t
    /\ strong[id] < MaxStrong
    /\ strong' = [strong EXCEPT ![id] = @ + 1]
    /\ refs' = [refs EXCEPT ![t][id] = @ + 1]
    /\ last' = Ret(t, "new_ref", "ok", id)
    /\ UNCHANGED <<pc, cur, lockVars, created, status, owner, native,
                   toolkitVars, obs>>
    /\ UNCHANGED viewVars

\* impl Clone for AppRef; the clone is kept or sent to thread u (AppRef: Send)
CloneRef(t, u, id) ==
    /\ pc[t] = "idle"
    /\ refs[t][id] > 0
    /\ strong[id] < MaxStrong
    /\ strong' = [strong EXCEPT ![id] = @ + 1]
    /\ refs' = [refs EXCEPT ![u][id] = @ + 1]
    /\ last' = Ret(t, "clone", "ok", id)
    /\ UNCHANGED <<pc, cur, lockVars, created, status, owner, native,
                   toolkitVars, obs>>
    /\ UNCHANGED viewVars

\* an AppRef drop that deletes the native application with the last AppRef
DropRef_deleting(t, id) ==
    /\ pc[t] = "idle"
    /\ refs[t][id] > 0
    /\ strong' = [strong EXCEPT ![id] = @ - 1]
    /\ refs' = [refs EXCEPT ![t][id] = @ - 1]
    /\ native' = IF strong[id] <= 2 THEN native \ {id} ELSE native
    /\ last' = Ret(t, "drop_ref", "ok", id)
    /\ UNCHANGED <<pc, cur, lockVars, created, status, owner, toolkitVars, obs>>
    /\ UNCHANGED viewVars

\* an AppRef is dropped: the Arc's strong count goes down by one (AppRef has
\* no Drop of its own, nothing native is touched)
DropRef(t, id) ==
    /\ pc[t] = "idle"
    /\ refs[t][id] > 0
    /\ strong' = [strong EXCEPT ![id] = @ - 1]
    /\ refs' = [refs EXCEPT ![t][id] = @ - 1]
    /\ native' = native
    /\ last' = Ret(t, "drop_ref", "ok", id)
    /\ UNCHANGED <<pc, cur, lockVars, created, status, owner, toolkitVars, obs>>
    /\ UNCHANGED viewVars

\* AppRef::get, lines 104-108: APP_EXTRA.try_read(), Err(_) => return None.
\* A None that comes from a writer holding or awaiting the lock is the
\* fail-fast window and is not recorded in obs.
GetTryRead(t) ==
    /\ pc[t] = "idle"
    /\ \A i \in Ids : strong[i] < MaxStrong
    /\ \E granted \in try_read :
         IF granted
         THEN /\ lock_readers' = lock_readers + 1
              /\ pc' = [pc EXCEPT ![t] = "get_read"]
              /\ UNCHANGED <<last, obs>>
         ELSE /\ pc' = pc
              /\ last' = Ret(t, "get", "None", 0)
              /\ obs' = IF t = Observer /\ lock_writer = 0 /\ ~writer_waiting
                        THEN observe(obs, "None") ELSE obs
              /\ UNCHANGED lock_readers
    /\ UNCHANGED <<cur, lock_writer, lock_poisoned, weak, created, strong,
                   status, owner, refs, native, toolkitVars>>
    /\ UNCHANGED viewVars

\* extra.upgrade().map(AppRef::new); the read guard is dropped on return
GetUpgrade(t) ==
    /\ pc[t] = "get_read"
    /\ LET id == upgrade(weak)
           r == IF id # 0 THEN "Some" ELSE "None" IN
         /\ IF id # 0
            THEN /\ strong' = [strong EXCEPT ![id] = @ + 1]
                 /\ refs' = [refs EXCEPT ![t][id] = @ + 1]
            ELSE UNCHANGED <<strong, refs>>
         /\ last' = Ret(t, "get", r, id)
         /\ obs' = IF t = Observer THEN observe(obs, r) ELSE obs
    /\ lock_readers' = lock_readers - 1
    /\ pc' = [pc EXCEPT ![t] = "idle"]
    /\ UNCHANGED <<cur, lock_writer, lock_poisoned, weak, created, status,
                   owner, native, toolkitVars>>
    /\ UNCHANGED viewVars

\* --------------------------------------------------------- name and style
\* a thread can call the accessors: it owns the App (Deref) or holds an AppRef
HoldsRef(t) ==
    \E id \in Ids : (owner[id] = t /\ status[id] = "live") \/ refs[t][id] > 0

\* clue::convert::to_string_view(s): a borrowed view of the bytes of s
to_string_view(s) == [data |-> s, size |-> Len(s)]

\* the native toolkit copies the `size` bytes the view points to
from_view(v) == SubSeq(v.data, 1, v.size)

\* decoding of the bytes the native side hands back: well-formed one and two
\* byte sequences are kept, any other byte becomes U+FFFD (EF BF BD)
RECURSIVE decode_lossy(_)
decode_lossy(b) ==
    IF b = <<>> THEN <<>>
    ELSE IF b[1] < 128 THEN <<b[1]>> \o decode_lossy(Tail(b))
    ELSE IF b[1] \in 194..223 /\ Len(b) >= 2 /\ b[2] \in 128..191
         THEN <<b[1], b[2]>> \o decode_lossy(Tail(Tail(b)))
    ELSE <<239, 191, 189>> \o decode_lossy(Tail(b))

\* set_name that calls qlue::qlueAppSetStyle, as set_style does
SetName_style(t, s) ==
    /\ pc[t] = "idle"
    /\ HoldsRef(t)
    /\ nativeStyle' = from_view(to_string_view(s))
    /\ last' = Ret(t, "set_name", "ok", s)
    /\ UNCHANGED <<pc, cur, lockVars, created, strong, status, owner, refs,
                   native, nativeName, obs>>
    /\ UNCHANGED viewVars

\* AppRef::set_name(&self, s): qlue::qlueAppSetName(to_string_view(s)); self
\* is not used, the name is the native application's
SetName(t, s) ==
    /\ pc[t] = "idle"
    /\ HoldsRef(t)
    /\ nativeName' = from_view(to_string_view(s))
    /\ last' = Ret(t, "set_name", "ok", s)
    /\ UNCHANGED <<pc, cur, lockVars, created, strong, status, owner, refs,
                   native, nativeStyle, obs>>
    /\ UNCHANGED viewVars

\* AppRef::name(&self): get_ffi_value(|env, cb| qlue::qlueAppName(env, cb))
Name(t) ==
    /\ pc[t] = "idle"
    /\ HoldsRef(t)
    /\ last' = Ret(t, "name", "ok", decode_lossy(nativeName))
    /\ UNCHANGED <<pc, cur, lockVars, created, strong, status, owner, refs,
                   native, toolkitVars, obs>>
    /\ UNCHANGED viewVars

\* AppRef::set_style(&self, s): qlue::qlueAppSetStyle(to_string_view(s))
SetStyle(t, s) ==
    /\ pc[t] = "idle"
    /\ HoldsRef(t)
    /\ nativeStyle' = from_view(to_string_view(s))
    /\ last' = Ret(t, "set_style", "ok", s)
    /\ UNCHANGED <<pc, cur, lockVars, created, strong, status, owner, refs,
                   native, nativeName, obs>>
    /\ UNCHANGED viewVars

\* ------------------------------------------------------------ log callback
ClueLogLevels == {"ClueLogLevelError", "ClueLogLevelWarn", "ClueLogLevelInfo",
                  "ClueLogLevelDebug", "ClueLogLevelTrace"}

\* the thread is inside qlueAppNew or qlueAppDelete, which may log
InNative(t) == pc[t] \in {"new_native", "drop_native"}

\* forward_log with the Debug arm of the match logging at LogLevel::Trace
forward_log_merged(level, fails) ==
    [level |-> CASE level = "ClueLogLevelError" -> "Error"
                 [] level = "ClueLogLevelWarn" -> "Warn"
                 [] level = "ClueLogLevelInfo" -> "Info"
                 [] level = "ClueLogLevelDebug" -> "Trace"
                 [] level = "ClueLogLevelTrace" -> "Trace",
     res |-> IF fails THEN "panic" ELSE "ok"]

\* forward_log: the level match, then log!(...), which runs the host logger
\* and panics when that logger does (fails)
forward_log(level, fails) ==
    [level |-> CASE level = "ClueLogLevelError" -> "Error"
                 [] level = "ClueLogLevelWarn" -> "Warn"
                 [] level = "ClueLogLevelInfo" -> "Info"
                 [] level = "ClueLogLevelDebug" -> "Debug"
                 [] level = "ClueLogLevelTrace" -> "Trace",
     res |-> IF fails THEN "panic" ELSE "ok"]

\* std::panic::catch_unwind: a panic of the closure becomes the value Err
catch_unwind(r) == IF r.res = "panic" THEN "Err" ELSE "Ok"

\* extern fn log calling forward_log without catch_unwind
log_uncaught(level, fails) ==
    IF forward_log(level, fails).res = "panic" THEN "unwound" ELSE "returned"

\* extern fn log: let _ = catch_unwind(|| forward_log(..)); how control
\* leaves the callback: "returned" to the native caller, or "unwound" into it
log(level, fails) ==
    IF catch_unwind(forward_log(level, fails)) \in {"Ok", "Err"}
    THEN "returned" ELSE "unwound"

\* the native toolkit calls the callback while the thread is inside
\* qlueAppNew or qlueAppDelete.  A panic that unwound out of the callback
\* would cross the native frames and drop the write guard of the thread
\* (poison) and the Arc it holds.
Log(t, level, fails) ==
    /\ InNative(t)
    /\ IF log(level, fails) = "returned"
       THEN /\ last' = Ret(t, "log", "returned",
                            [from |-> level,
                             level |-> forward_log(level, fails).level,
                             caught |-> catch_unwind(forward_log(level, fails))])
            /\ UNCHANGED <<pc, cur, lock_writer, lock_poisoned, strong, status>>
       ELSE /\ last' = Ret(t, "log", "unwound",
                            [from |-> level,
                             level |-> forward_log(level, fails).level,
                             caught |-> "no"])
            /\ pc' = [pc EXCEPT ![t] = "idle"]
            /\ cur' = [cur EXCEPT ![t] = 0]
            /\ lock_writer' = 0
            /\ lock_poisoned' = TRUE
            /\ strong' = [strong EXCEPT ![cur[t]] = @ - 1]
            /\ status' = [status EXCEPT ![cur[t]] = "abandoned"]
    /\ UNCHANGED <<lock_readers, weak, created, owner, refs, native,
                   toolkitVars, obs>>
    /\ UNCHANGED viewVars

\* the host logger run by the callback calls AppRef::get() on the thread that
\* holds the write guard; an AppRef it got would be dropped before it returns
LogGet(t) ==
    /\ InNative(t)
    /\ \E granted \in try_read :
         last' = Ret(t, "log_get",
                     IF granted /\ upgrade(weak) # 0 THEN "Some" ELSE "None", 0)
    /\ UNCHANGED <<pc, cur, lockVars, created, strong, status, owner, refs,
                   native, toolkitVars, obs>>
    /\ UNCHANGED viewVars

\* --------------------------------------------------------------- QuickView
\* the thread has a &App of App id at hand: App is neither Send nor Sync, so
\* it is the thread that created the App, and the App has not been dropped
BorrowsApp(t, id) == pc[t] = "idle" /\ status[id] = "live" /\ owner[id] = t

\* the handle the next qlueQuickViewNew() returns
NewHandle == CHOOSE h \in ViewIds :
               /\ nativeViews[h].state = "none"
               /\ \A g \in ViewIds : g < h => nativeViews[g].state # "none"

\* QuickView::new(&app): one native view; the value borrows the App for 'a
ViewNew(t, id) ==
    /\ BorrowsApp(t, id)
    /\ \E h \in ViewIds : nativeViews[h].state = "none"
    /\ nativeViews' = [nativeViews EXCEPT ![NewHandle].state = "alive"]
    /\ views' = views \cup {[im |-> NewHandle, app |-> id]}
    /\ last' = Ret(t, "view_new", "ok", NewHandle)
    /\ UNCHANGED <<pc, cur, lockVars, created, strong, status, owner, refs,
                   native, toolkitVars, obs>>

\* QuickView::set_source: qlueQuickViewSetSource(self.im, to_string_view(url))
ViewSetSource(t, v, url) ==
    /\ v \in views
    /\ BorrowsApp(t, v.app)
    /\ nativeViews' = [nativeViews EXCEPT
                         ![v.im].source = from_view(to_string_view(url))]
    /\ last' = Ret(t, "set_source", "ok", v.im)
    /\ UNCHANGED <<pc, cur, lockVars, created, strong, status, owner, refs,
                   native, toolkitVars, views, obs>>

\* QuickView::show: qlueQuickViewShow(self.im)
ViewShow(t, v) ==
    /\ v \in views
    /\ BorrowsApp(t, v.app)
    /\ nativeViews' = [nativeViews EXCEPT ![v.im].shown = TRUE]
    /\ last' = Ret(t, "show", "ok", v.im)
    /\ UNCHANGED <<pc, cur, lockVars, created, strong, status, owner, refs,
                   native, toolkitVars, views, obs>>

\* impl Drop for QuickView: qlueQuickViewDelete(self.im); the value is gone
ViewDrop(t, v) ==
    /\ v \in views
    /\ BorrowsApp(t, v.app)
    /\ nativeViews' = [nativeViews EXCEPT
                         ![v.im] = [state |-> "deleted", source |-> <<>>,
                                    shown |-> FALSE, deletes |-> @.deletes + 1]]
    /\ views' = views \ {v}
    /\ last' = Ret(t, "view_drop", "ok", v.im)
    /\ UNCHANGED <<pc, cur, lockVars, created, strong, status, owner, refs,
                   native, toolkitVars, obs>>

\* ------------------------------------------------------------------- Next
Next ==
    \/ \E t \in Threads : NewCall(t)
    \/ \E t \in Threads : NewLock(t)
    \/ \E t \in Threads : NewCheck(t)
    \/ \E t \in Threads : NewNative(t)
    \/ \E t \in Threads : NewPublish(t)
    \/ \E t \in Threads, id \in Ids : DropCall(t, id)
    \/ \E t \in Threads : DropLock(t)
    \/ \E t \in Threads : DropCheck(t)
    \/ \E t \in Threads : DropNative(t)
    \/ \E t \in Threads, id \in Ids : NewRef(t, id)
    \/ \E t \in Threads, u \in Threads, id \in Ids : CloneRef(t, u, id)
    \/ \E t \in Threads, id \in Ids : DropRef(t, id)
    \/ \E t \in Threads : GetTryRead(t)
    \/ \E t \in Threads : GetUpgrade(t)
    \/ \E t \in Threads, level \in ClueLogLevels, fails \in BOOLEAN : Log(t, level, fails)
    \/ \E t \in Threads : LogGet(t)

\* every thread runs any of the operations, in any interleaving
Spec == Init /\ [][Next]_vars

\* the accessors of the name and the style, over the App's lifecycle and the
\* AppRefs handed out by new_ref and clone
NextName ==
    \/ \E t \in Threads : NewCall(t)
    \/ \E t \in Threads : NewLock(t)
    \/ \E t \in Threads : NewCheck(t)
    \/ \E t \in Threads : NewNative(t)
    \/ \E t \in Threads : NewPublish(t)
    \/ \E t \in Threads, id \in Ids : DropCall(t, id)
    \/ \E t \in Threads : DropLock(t)
    \/ \E t \in Threads : DropCheck(t)
    \/ \E t \in Threads : DropNative(t)
    \/ \E t \in Threads, id \in Ids : NewRef(t, id)
    \/ \E t \in Threads, u \in Threads, id \in Ids : CloneRef(t, u, id)
    \/ \E t \in Threads, id \in Ids : DropRef(t, id)
    \/ \E t \in Threads, s \in Names : SetName(t, s)
    \/ \E t \in Threads : Name(t)
    \/ \E t \in Threads, s \in Styles : SetStyle(t, s)

SpecName == Init /\ [][NextName]_vars

\* the QuickViews of an App over the App's lifecycle, with the AppRefs of
\* new_ref that take App drop to its fatal path
NextView ==
    \/ \E t \in Threads : NewCall(t)
    \/ \E t \in Threads : NewLock(t)
    \/ \E t \in Threads : NewCheck(t)
    \/ \E t \in Threads : NewNative(t)
    \/ \E t \in Threads : NewPublish(t)
    \/ \E t \in Threads, id \in Ids : DropCall(t, id)
    \/ \E t \in Threads : DropLock(t)
    \/ \E t \in Threads : DropCheck(t)
    \/ \E t \in Threads : DropNative(t)
    \/ \E t \in Threads, id \in Ids : NewRef(t, id)
    \/ \E t \in Threads, id \in Ids : DropRef(t, id)
    \/ \E t \in Threads, id \in Ids : ViewNew(t, id)
    \/ \E t \in Threads, v \in views, url \in Urls : ViewSetSource(t, v, url)
    \/ \E t \in Threads, v \in views : ViewShow(t, v)
    \/ \E t \in Threads, v \in views : ViewDrop(t, v)

SpecView == Init /\ [][NextView]_vars

\* ------------------------------------------------------------------ claims
\* an App value exists: App::new returned it and its drop has not ended
AppExists(id) == status[id] \in {"live", "dropping"}
LiveApps == {id \in Ids : AppExists(id)}

\* thread t leaves App::new by a panic in this step
NewPanics(t) ==
    /\ pc[t] \in {"new_wait", "new_check"}
    /\ pc'[t] = "idle"
    /\ last' = Ret(t, "new", "panic", 0)

\* C1: in every reachable state at most one App exists, and at most one
\* native application has been created by qlueAppNew and not yet deleted.
C1_AtMostOneApp == Cardinality(LiveApps) <= 1 /\ Cardinality(native) <= 1

\* an App is live and another App::new has just been refused
C1_Witness ==
    /\ LiveApps # {}
    /\ Cardinality(native) = 1
    /\ last.op = "new" /\ last.res = "panic"

\* C2: an App::new that takes the lock while an App exists panics: it never
\* reaches qlueAppNew, the native applications are unchanged and the slot
\* still resolves to the existing instance.
C2_SecondNewPanics ==
    [][\A t \in Threads :
         (LiveApps # {} /\ pc[t] \in {"new_wait", "new_check"} /\ pc'[t] # pc[t])
         => /\ pc'[t] \in {"new_check", "idle"}
            /\ pc[t] = "new_check" => pc'[t] = "idle"
            /\ pc'[t] = "idle" => NewPanics(t)
            /\ native' = native
            /\ weak' = weak
            /\ upgrade(weak') \in LiveApps]_vars

\* App::new has panicked on the assertion while an App is live
C2_Witness ==
    /\ LiveApps # {}
    /\ upgrade(weak) \in LiveApps
    /\ lock_poisoned
    /\ last.op = "new" /\ last.res = "panic"

\* thread t returns None from AppRef::get without the read lock in this step
GetFails(t) ==
    /\ pc[t] = "idle"
    /\ pc' = pc
    /\ last' = Ret(t, "get", "None", 0)
    /\ last' # last \/ obs' # obs

\* thread t returns from AppRef::get with the read lock held in this step
GetResolves(t) == pc[t] = "get_read" /\ pc'[t] = "idle"

C4_DropWhileReferencedPanics ==
    /\ [](\A id \in Ids : status[id] = "leaked" => id \in native)
    /\ [][\A t \in Threads :
            (pc[t] = "drop_check" /\ strong[cur[t]] > 1 /\ pc'[t] # pc[t])
            => /\ pc'[t] = "idle"
               /\ last' = Ret(t, "drop", "panic", cur[t])
               /\ native' = native
               /\ cur[t] \in native']_vars

\* an App was dropped with an AppRef outstanding
C4_Witness ==
    \E id \in Ids :
      /\ status[id] = "leaked"
      /\ id \in native
      /\ last.op = "drop" /\ last.res = "panic" /\ last.val = id
      /\ \E t \in Threads : refs[t][id] > 0

RECURSIVE SumRefs(_, _)
SumRefs(T, id) ==
    IF T = {} THEN 0
    ELSE LET t == CHOOSE x \in T : TRUE IN refs[t][id] + SumRefs(T \ {t}, id)

\* a step of new_ref, clone or drop of an AppRef
RefStep == pc' = pc /\ refs' # refs

\* C5: new_ref, clone and drop of an AppRef always succeed and touch neither
\* the native application nor the Global Weak Slot; while the App exists its
\* strong count is its own reference plus the AppRefs alive, so the slot keeps
\* resolving to it whatever is cloned and dropped.
C5_CloneDropKeepAppAlive ==
    /\ [](\A id \in LiveApps :
            /\ strong[id] = 1 + SumRefs(Threads, id)
            /\ id \in native
            /\ lock_writer = 0 => upgrade(weak) = id)
    /\ [][RefStep
          => /\ last'.res = "ok"
             /\ last'.op \in {"new_ref", "clone", "drop_ref"}
             /\ native' = native
             /\ lockVars' = lockVars
             /\ status' = status]_vars

\* one of the AppRefs cloned from the App was dropped and another is still
\* held, with the App live
C5_Witness ==
    \E id \in Ids :
      /\ status[id] = "live"
      /\ last.op = "drop_ref" /\ last.val = id
      /\ SumRefs(Threads, id) >= 1
      /\ upgrade(weak) = id
      /\ id \in native

\* the App created last has been destroyed by a drop that ran to its end
LastDestroyed == created >= 1 /\ status[created] = "destroyed"

\* C6: an App drop that finds no AppRef outstanding runs to its end, leaving
\* the slot empty, the lock unpoisoned and no native application; the next
\* App::new then passes the lock and the assertion and returns a live App.
C6_NewAfterCleanDrop ==
    [][\A t \in Threads :
         /\ (pc[t] = "drop_check" /\ strong[cur[t]] = 1 /\ pc'[t] # pc[t])
            => pc'[t] = "drop_native"
         /\ (pc[t] = "drop_native" /\ pc'[t] = "idle")
            => /\ last' = Ret(t, "drop", "ok", cur[t])
               /\ status'[cur[t]] = "destroyed"
               /\ ~lock_poisoned'
               /\ upgrade(weak') = 0
               /\ native' = {}
         /\ (LastDestroyed /\ pc[t] \in {"new_wait", "new_check"})
            => pc'[t] # "idle"
         /\ (pc[t] = "new_publish" /\ pc'[t] = "idle")
            => /\ last' = Ret(t, "new", "ok", cur[t])
               /\ status'[cur[t]] = "live"
               /\ upgrade(weak') = cur[t]]_vars

\* the second App of the process is live after the first was destroyed
C6_Witness ==
    /\ created = MaxApps
    /\ \A id \in 1..(MaxApps - 1) : status[id] = "destroyed"
    /\ status[MaxApps] = "live"
    /\ last = Ret(owner[MaxApps], "new", "ok", MaxApps)

\* C7: name() returns the argument of the set_name that ran last, whichever
\* thread, App or AppRef made either call: set_name stores its argument in
\* the one native application, nothing else changes the name, and name()
\* returns the stored name.
C7_SetNameThenName ==
    /\ [][(last.op = "set_name" /\ last'.op = "name") => last'.val = last.val]_vars
    /\ [][nativeName' # nativeName
          => (last'.op = "set_name" /\ nativeName' = last'.val)]_vars
    /\ [][(last'.op = "name" /\ last' # last) => last'.val = nativeName]_vars

\* name() returned "é" through an AppRef held by a thread that owns no App
C7_Witness ==
    /\ last.op = "name"
    /\ last.val = <<195, 169>>
    /\ \E id \in Ids :
         /\ status[id] = "live"
         /\ owner[id] # last.t
         /\ refs[last.t][id] > 0

\* C8: with one App created and destroyed in the run, the results AppRef::get
\* gives the Observer, the fail-fast window left out, are a run of None, a run
\* of Some and a run of None; no Some refers to an App whose drop has ended.
C8_NoneSomeNone ==
    /\ [](obs = "broken" => created >= 2)
    /\ [][(GetResolves(Observer) /\ last'.res = "Some")
          => AppExists(last'.val)]_vars

\* the Observer has seen None, Some and None again around the one App
C8_Witness ==
    /\ obs = "none"
    /\ created = 1
    /\ status[1] = "destroyed"
    /\ owner[1] # Observer
    /\ last = Ret(Observer, "get", "None", 0)

\* C9: AppRef::get never waits: each of its steps can be taken in every
\* state, also from the log callback of the thread holding the write guard;
\* no read guard is granted while a write guard is alive, the call then
\* returns None.
C9_GetNeverBlocks ==
    /\ [](\A t \in Threads :
            /\ (pc[t] = "idle" /\ \A i \in Ids : strong[i] < MaxStrong)
               => ENABLED GetTryRead(t)
            /\ pc[t] = "get_read" => ENABLED GetUpgrade(t)
            /\ InNative(t) => ENABLED LogGet(t))
    /\ [][\A t \in Threads :
            /\ (pc[t] = "idle" /\ pc'[t] = "get_read") => lock_writer = 0
            /\ (last'.op = "log_get" /\ last'.t = t /\ last' # last)
               => (lock_writer = t /\ last'.res = "None")]_vars

\* get returned None to a thread while another thread held the write guard
C9_Witness ==
    \E t \in Threads :
      /\ last = Ret(t, "get", "None", 0)
      /\ lock_writer # 0
      /\ lock_writer # t
      /\ pc[t] = "idle"

\* a step of the log callback
LogStep == last'.op = "log" /\ last' # last

\* C10: the log callback always returns to the native toolkit, also when
\* forward_log panics, and changes nothing of the App, the lock or the slot.
C10_LogFailureAbsorbed ==
    [][LogStep
       => /\ last'.res = "returned"
          /\ UNCHANGED <<pc, cur, lockVars, created, strong, status, owner,
                         refs, native>>]_vars

\* forward_log panicked inside qlueAppNew or qlueAppDelete and was caught
C10_Witness ==
    /\ last.op = "log"
    /\ last.res = "returned"
    /\ last.val.caught = "Err"
    /\ lock_writer = last.t
    /\ ~lock_poisoned

\* the host level that carries the name of a native level
SameName ==
    [l \in ClueLogLevels |->
       CASE l = "ClueLogLevelError" -> "Error"
         [] l = "ClueLogLevelWarn" -> "Warn"
         [] l = "ClueLogLevelInfo" -> "Info"
         [] l = "ClueLogLevelDebug" -> "Debug"
         [] l = "ClueLogLevelTrace" -> "Trace"]

\* the host levels of the messages a run has to produce to cover the enum
HostLevels == {"Error", "Warn", "Info", "Debug", "Trace"}

\* C11: every message the log callback forwards is logged at the host level
\* named like its native level, and the mapping is total and one to one:
\* the five native levels give five different host levels.
C11_LevelsOneToOne ==
    /\ last.op = "log" => /\ last.val.from \in ClueLogLevels
                          /\ last.val.level = SameName[last.val.from]
    /\ {forward_log(l, FALSE).level : l \in ClueLogLevels} = HostLevels
    /\ \A a \in ClueLogLevels, b \in ClueLogLevels :
          forward_log(a, FALSE).level = forward_log(b, FALSE).level => a = b

\* a Debug message of the toolkit was forwarded at Debug
C11_Witness ==
    /\ last.op = "log"
    /\ last.val.from = "ClueLogLevelDebug"
    /\ last.val.level = "Debug"
    /\ last.val.caught = "Ok"

\* the drop of App id has ended: it ran to the end, or it panicked
Dropped(id) == status[id] \in {"destroyed", "leaked", "abandoned"}

\* the slot at process start and after a successful App::new()
SlotFollowsNew ==
    /\ created = 0 => weak = 0
    /\ \A id \in Ids : status[id] = "live" => upgrade(weak) = id

\* C12 as stated: the Global Weak Slot is empty at process start, resolves to
\* the new instance after every successful App::new(), and after any App drop,
\* the fatal-usage path included, no longer resolves to that instance.
C12_SlotClearedByEveryDrop ==
    /\ SlotFollowsNew
    /\ \A id \in Ids : Dropped(id) => upgrade(weak) # id

\* C12 amended: the slot is empty at process start, resolves to the new
\* instance after every successful App::new(), and is cleared by an App drop
\* that runs to its end.  A drop that panics (references outstanding, or the
\* lock already poisoned) leaves the weak pointer in the slot: it still
\* upgrades while a reference remains, the leaked one included, and the lock
\* is poisoned.
C12_SlotClearedByCleanDrop ==
    /\ SlotFollowsNew
    /\ \A id \in Ids :
         /\ status[id] = "destroyed" => weak # id
         /\ status[id] \in {"leaked", "abandoned"} => weak = id /\ lock_poisoned
         /\ status[id] = "leaked" => upgrade(weak) = id

\* after a drop on the fatal-usage path the slot still resolves, and a get()
\* returned None all the same
C12_Witness ==
    \E id \in Ids :
      /\ status[id] = "leaked"
      /\ upgrade(weak) = id
      /\ last.op = "get"
      /\ last.res = "None"

\* C13: an App drop that finds AppRefs outstanding leaks one reference, so
\* from then on the strong count of its AppExtra is one more than the number
\* of AppRefs in existence and never reaches zero: AppExtra is never freed,
\* whatever is dropped afterwards.
C13_LeakKeepsAppExtra ==
    \A id \in Ids :
      status[id] = "leaked"
        => /\ strong[id] = SumRefs(Threads, id) + 1
           /\ strong[id] >= 1

\* the App's reference and every AppRef are gone, the leaked count remains
C13_Witness ==
    \E id \in Ids :
      /\ status[id] = "leaked"
      /\ SumRefs(Threads, id) = 0
      /\ strong[id] = 1
      /\ last.op = "drop_ref"

\* thread t is inside the critical section of App::new or of App drop
WriteSection(t) ==
    pc[t] \in {"new_check", "new_native", "new_publish", "drop_check",
               "drop_native"}

\* thread t is inside get(), resolving the slot under a read guard
Resolving(t) == pc[t] = "get_read"

\* C14: no get() resolves the slot while a thread is inside the critical
\* section of App::new or of App drop, and two such critical sections never
\* overlap: the thread inside one is the holder of the write lock, and the
\* read guards held are those of the get() calls resolving the slot.
C14_WritersExcludeLookups ==
    /\ \A t \in Threads : WriteSection(t) <=> lock_writer = t
    /\ Cardinality({t \in Threads : WriteSection(t)}) <= 1
    /\ (\E t \in Threads : WriteSection(t))
         => \A u \in Threads : ~Resolving(u)
    /\ lock_readers = Cardinality({t \in Threads : Resolving(t)})

\* two get() calls resolve the slot of a live App at the same time
C14_Witness ==
    /\ Cardinality({t \in Threads : Resolving(t)}) >= 2
    /\ lock_readers >= 2
    /\ upgrade(weak) # 0

\* C15: every AppRef in existence, in any thread, refers to a native
\* application that has not been deleted: while App drop is between its count
\* check and qlueAppDelete the strong count is 1, the App's own reference, and
\* no AppRef exists or comes into existence.
C15_AppRefsReferToNative ==
    /\ \A t \in Threads, id \in Ids : refs[t][id] > 0 => id \in native
    /\ \A t \in Threads :
         pc[t] = "drop_native"
           => /\ strong[cur[t]] = 1
              /\ SumRefs(Threads, cur[t]) = 0
              /\ cur[t] \in native

\* App drop has passed its count check and has not yet deleted the native
\* application; a get() of another thread was refused in that window
C15_Witness ==
    \E t \in Threads :
      /\ pc[t] = "drop_native"
      /\ last.op = "get"
      /\ last.res = "None"
      /\ last.t # t

\* the Arc has freed AppExtra id, and with it the buffers argc and argv point to
Freed(id) == status[id] # "none" /\ strong[id] = 0

\* C16: the AppExtra whose argc/argv were handed to qlueAppNew stays allocated
\* as long as its native application has not been deleted: it is freed only
\* after qlueAppDelete, and never on the leak path.
C16_ArgvOutlivesNative ==
    \A id \in Ids :
      /\ id \in native => ~Freed(id)
      /\ status[id] = "leaked" => ~Freed(id)

\* a fatal usage error: the assertion of App::new or of App drop panics
FatalPanic(t) == pc[t] \in {"new_check", "drop_check"} /\ pc'[t] = "idle"

\* with the lock poisoned no guard is alive and no thread is past a lock call
NoGuards ==
    /\ lock_writer = 0
    /\ lock_readers = 0
    /\ \A t \in Threads : pc[t] \in {"idle", "new_wait", "drop_wait"}

\* what the operations do once the lock is poisoned
AfterPoison ==
    /\ lock_poisoned'
    /\ created' = created
    /\ weak' = weak
    /\ native' = native
    /\ \A id \in Ids :
         status'[id] \in {"live", "destroyed"} => status'[id] = status[id]
    /\ \A t \in Threads :
         /\ pc[t] = "new_wait" /\ pc'[t] # "new_wait"
              => pc'[t] = "idle" /\ last' = Ret(t, "new", "panic", 0)
         /\ pc[t] = "drop_wait" /\ pc'[t] # "drop_wait"
              => /\ pc'[t] = "idle"
                 /\ last' = Ret(t, "drop", "panic", cur[t])
                 /\ status'[cur[t]] = "abandoned"
    /\ last'.op \in {"get", "log_get"} /\ last' # last => last'.res = "None"

\* C17: both fatal usage errors poison the lock of the Global Weak Slot, and
\* from then on every App::new() panics, every AppRef::get() returns None and
\* every drop of an App panics without clearing the slot or deleting the
\* native application: no App is created or cleanly destroyed any more.
C17_PoisonIsPermanent ==
    /\ [](lock_poisoned => NoGuards)
    /\ [][(\E t \in Threads : FatalPanic(t)) => lock_poisoned']_vars
    /\ [][lock_poisoned => AfterPoison]_vars

\* an App that was live when the lock got poisoned was dropped: the drop
\* panicked, the slot and the native application stay as they were
C17_Witness ==
    \E id \in Ids :
      /\ lock_poisoned
      /\ status[id] = "abandoned"
      /\ weak = id
      /\ id \in native
      /\ last = Ret(owner[id], "drop", "panic", id)

====
